---- MODULE Spec2Model ----
(***************************************************************************)
(* garlang front end: the recursive-descent parser with error recovery     *)
(* (package parser) and the lowering of the AST to Core IR (package        *)
(* compile).                                                               *)
(*                                                                         *)
(* The parser is a stack machine: one frame per active parse* call, one    *)
(* action per parse* function, one step per stretch of a function that     *)
(* eats at most one token and reports at most one error.  The input is the *)
(* token slice p.tokens[p.pos:], fixed token by token as the parser looks  *)
(* at it, so that a run of the model stands for every input that shares    *)
(* the prefix read so far.  The tree is kept as what the claims read of    *)
(* it: per node its kind, whether a Bad* node lies in it, and the line of  *)
(* its Pos().                                                              *)
(***************************************************************************)
EXTENDS Integers, Sequences, FiniteSets, TLC

VARIABLES
    toks,      \* p.tokens[p.pos:], as far as the input is fixed
    budget,    \* number of raw tokens the input may still hold behind toks
    line,      \* line of the last token fixed
    alphabet,  \* the token kinds the rest of the input is drawn from
    stack,     \* the active parse* calls, innermost last
    ret,       \* the value the last returned call handed back
    errors,    \* p.errors
    report,    \* the p.error call of the last step, and what became of it
    status,    \* "run", "done" (the entry point returned), "bailout"
    tree,      \* the result of the entry point, as built so far
    cin,       \* compile: the *ast.Module as the parser built it
    cmod,      \* compile: that module now (lowering writes to it)
    carg,      \* compile: the tree the last Compile* call was given
    cout,      \* compile: what the last Compile* call returned
    ccalls     \* compile: number of Compile* calls made

pvars == <<toks, budget, line, alphabet, stack, ret, errors, report, status, tree>>
cvars == <<cin, cmod, carg, cout, ccalls>>
vars == <<toks, budget, line, alphabet, stack, ret, errors, report, status, tree,
          cin, cmod, carg, cout, ccalls>>

----------------------------------------------------------------------------
(* Bounds of the model *)

MaxTokens == 7       \* raw tokens of an input of Spec
MaxLine == 2         \* source lines of an input of Spec
MaxComments == 1     \* comment tokens in a row
MaxCalls == 2        \* Compile* calls on one module
MaxBadLines == 12    \* lines of an input of SpecCap
MaxExtraArgs == 2    \* arguments of an input of SpecArgs beyond MaxArguments
MaxBodyTokens == 5   \* raw tokens of an input of SpecBody after its first five

(* Program constants *)

maxErrors == 10
EofLine == 0         \* line of the zero Pos of the token eat/peek make up at the end
MaxArguments == 255

----------------------------------------------------------------------------
(* Tokens: lexer.Token{Type, Pos, Lit}, Pos kept as the line file.Position gives *)

Tok(type, lit, ln) == [type |-> type, lit |-> lit, line |-> ln]
EOFTok == Tok("EOF", "", EofLine)
CommentTok(ln) == Tok("Comment", "", ln)

declStart == {"EOF", "Func"}
exprEnd == {"EOF", "Semicolon", "RParen", "RCurlyBracket", "Comma"}
stmtStart == {"Return", "Identifier", "LCurlyBracket"}
paramStart == {"Identifier"}

StopSet(name) ==
    CASE name = "declStart" -> declStart
      [] name = "exprEnd" -> exprEnd
      [] name = "stmtStart" -> stmtStart
      [] name = "paramStart" -> paramStart

HasReal(tk) == \E i \in 1..Len(tk) : tk[i].type # "Comment"
FirstReal(tk) == CHOOSE i \in 1..Len(tk) :
                    /\ tk[i].type # "Comment"
                    /\ \A j \in 1..(i-1) : tk[j].type = "Comment"

\* Parser.peek: the next token that is no comment, EOF when there is none
Peek == IF HasReal(toks) THEN toks[FirstReal(toks)] ELSE EOFTok

\* Parser.matches
Matches(types) == Peek.type \in types

\* Parser.eat: p.tokens[p.pos:] after the call (the token it returns is Peek)
AfterEat(tk) == IF HasReal(tk) THEN SubSeq(tk, FirstReal(tk) + 1, Len(tk)) ELSE <<>>

\* The ways the input goes on behind tk: toks always reaches to the next
\* token that is no comment, or to the end of the input.
RECURSIVE Fills(_, _, _)
Fills(tk, b, ln) ==
    IF HasReal(tk) \/ b = 0
    THEN {[toks |-> tk, budget |-> b, line |-> ln]}
    ELSE {[toks |-> tk, budget |-> 0, line |-> ln]}
         \cup (IF Len(tk) < MaxComments
               THEN Fills(Append(tk, CommentTok(ln)), b - 1, ln)
               ELSE {})
         \cup {[toks |-> Append(tk, Tok(k.type, k.lit, l)), budget |-> b - 1, line |-> l] :
                  k \in alphabet, l \in {m \in {ln, ln + 1} : m <= MaxLine}}

----------------------------------------------------------------------------
(* The tree, as far as it is kept *)

\* kind: the node's type ("nil" for a nil interface); bad: a BadDecl, BadStmt or
\* BadExpr lies in it; line: the line of its Pos(); n: the number of Arguments
\* of a CallExpr
Node(kind, bad, ln) == [kind |-> kind, bad |-> bad, line |-> ln, n |-> 0]
NodeN(kind, bad, ln, n) == [kind |-> kind, bad |-> bad, line |-> ln, n |-> n]
NoNode == Node("nil", FALSE, 0)

Frame(fn, pc, v, n, arg) == [fn |-> fn, pc |-> pc, v |-> v, n |-> n, arg |-> arg]
F0(fn) == Frame(fn, 0, NoNode, 0, "")

Top == stack[Len(stack)]
Below == SubSeq(stack, 1, Len(stack) - 1)
Goto(pc) == Append(Below, [Top EXCEPT !.pc = pc])
GotoWith(pc, v, n) == Append(Below, [Top EXCEPT !.pc = pc, !.v = v, !.n = n])
Call(stk, fn) == Append(stk, F0(fn))
CallAdvance(stk, to) == Append(stk, Frame("advance", 0, NoNode, 0, to))
CallEatAll(stk, type) == Append(stk, Frame("eatAll", 0, NoNode, 0, type))
Running(fn) == status = "run" /\ stack # <<>> /\ Top.fn = fn

----------------------------------------------------------------------------
(* The error collector *)

NoErr == [line |-> -1, msg |-> ""]
Err(ln, msg) == [line |-> ln, msg |-> msg]
NoReport == [line |-> -1, msg |-> "", outcome |-> "none"]

\* Parser.error with the line of the last error taken as 0 when there is none
ErrorLastLineDefault(errs, ln, msg) ==
    LET n == Len(errs)
        last == IF n > 0 THEN errs[n].line ELSE 0
    IN  IF last = ln
        THEN [errors |-> errs, outcome |-> "discarded"]
        ELSE IF Len(errs) > maxErrors
             THEN [errors |-> errs, outcome |-> "bailout"]
             ELSE [errors |-> Append(errs, Err(ln, msg)), outcome |-> "recorded"]

\* Parser.error without the same-line check
ErrorNoDiscard(errs, ln, msg) ==
    IF Len(errs) > maxErrors
    THEN [errors |-> errs, outcome |-> "bailout"]
    ELSE [errors |-> Append(errs, Err(ln, msg)), outcome |-> "recorded"]

\* Parser.error
Error(errs, ln, msg) ==
    LET n == Len(errs) IN
    IF n > 0 /\ errs[n].line = ln
    THEN [errors |-> errs, outcome |-> "discarded"]
    ELSE IF Len(errs) > maxErrors
         THEN [errors |-> errs, outcome |-> "bailout"]
         ELSE [errors |-> Append(errs, Err(ln, msg)), outcome |-> "recorded"]

\* Parser.eatOnly: the error it reports when the token eaten is tok
EatOnlyErr(tok, type, msg) == IF tok.type # type THEN Err(tok.line, msg) ELSE NoErr

\* One step of a parse* function: the stack it leaves, the value handed back,
\* the tree, what it eats ("eat": Parser.eat, "raw": p.pos++, "none") and the
\* p.error call it makes, if any.  The panic of Parser.error unwinds to
\* catchErrors, which hands back p.errors.
Step(stk, r, t, eats, err) ==
    LET e == IF err = NoErr
             THEN [errors |-> errors, outcome |-> "none"]
             ELSE Error(errors, err.line, err.msg)
        rest == CASE eats = "eat" -> AfterEat(toks)
                  [] eats = "raw" -> Tail(toks)
                  [] OTHER -> toks
    IN  /\ \E f \in Fills(rest, budget, line) :
              /\ toks' = f.toks
              /\ budget' = f.budget
              /\ line' = f.line
        /\ report' = [line |-> err.line, msg |-> err.msg, outcome |-> e.outcome]
        /\ errors' = e.errors
        /\ IF e.outcome = "bailout"
           THEN /\ status' = "bailout"
                /\ stack' = <<>>
                /\ ret' = NoNode
                /\ tree' = tree
           ELSE /\ status' = IF stk = <<>> THEN "done" ELSE "run"
                /\ stack' = stk
                /\ ret' = r
                /\ tree' = t
        /\ UNCHANGED <<alphabet, cvars>>

\* Parser.eatAll: one turn of its loop
EatAll ==
    /\ Running("eatAll")
    /\ IF toks # <<>> /\ Head(toks).type = Top.arg
       THEN Step(stack, ret, tree, "raw", NoErr)
       ELSE Step(Below, ret, tree, "none", NoErr)

\* Parser.advance: one turn of its loop
Advance ==
    /\ Running("advance")
    /\ IF Peek.type # "EOF" /\ Peek.type \notin StopSet(Top.arg)
       THEN Step(stack, ret, tree, "eat", NoErr)
       ELSE Step(Below, ret, tree, "none", NoErr)

----------------------------------------------------------------------------
(* Entry points and declarations *)

\* entry: the entry point called; decls: Module.Decls (for Function, the
\* declaration returned); err: the error of parseModuleHeader; unclosed: a
\* CallExpr was built whose RightParen is the position of a token other than `)`
EmptyTree(entry) == [entry |-> entry, decls |-> <<>>, err |-> "", unclosed |-> FALSE]
AddDecl(t, d) == [t EXCEPT !.decls = Append(@, Node(d.kind, d.bad, 0))]
TreeBad(t) == \E i \in 1..Len(t.decls) : t.decls[i].bad

\* The module entry point: header, then the declarations by their first token.
\* It returns when the header fails.
Module ==
    /\ Running("Module")
    /\ CASE Top.pc = 0 -> Step(Call(Goto(1), "parseModuleHeader"), NoNode, tree, "none", NoErr)
         [] Top.pc = 1 ->
              IF ret.kind = "ErrBadModule"
              THEN Step(Below, NoNode, [tree EXCEPT !.err = "ErrBadModule"], "none", NoErr)
              ELSE Step(Goto(2), NoNode, tree, "none", NoErr)
         [] Top.pc = 2 ->
              CASE Peek.type = "EOF" -> Step(Below, NoNode, tree, "none", NoErr)
                [] Peek.type = "Func" -> Step(Call(Goto(3), "parseFunction"), NoNode, tree, "none", NoErr)
                [] Peek.type = "TypeKeyword" -> Step(Call(Goto(3), "parseTypeDecl"), NoNode, tree, "none", NoErr)
                [] OTHER -> Step(CallAdvance(Goto(4), "declStart"), NoNode, tree, "eat",
                                 Err(Peek.line, "expected func"))
         [] Top.pc = 3 -> Step(Goto(2), NoNode, AddDecl(tree, ret), "none", NoErr)
         [] Top.pc = 4 -> Step(Goto(2), NoNode, AddDecl(tree, Node("BadDecl", TRUE, 0)), "none", NoErr)

\* The function entry point: one function declaration
Function ==
    /\ Running("Function")
    /\ CASE Top.pc = 0 -> Step(Call(Goto(1), "parseFunction"), NoNode, tree, "none", NoErr)
         [] Top.pc = 1 -> Step(Below, NoNode, AddDecl(tree, ret), "none", NoErr)

\* Parser.parseModuleHeader
ParseModuleHeader ==
    /\ Running("parseModuleHeader")
    /\ CASE Top.pc = 0 ->
              IF Peek.type # "Module"
              THEN Step(CallAdvance(Goto(9), "declStart"), NoNode, tree, "eat",
                        EatOnlyErr(Peek, "Module", "expected 'module' keyword at start of file"))
              ELSE Step(Goto(1), NoNode, tree, "eat", NoErr)
         [] Top.pc = 1 ->
              IF Peek.type # "Identifier"
              THEN Step(CallAdvance(Goto(9), "declStart"), NoNode, tree, "eat",
                        EatOnlyErr(Peek, "Identifier", "expected module name after 'module' keyword"))
              ELSE Step(Goto(2), NoNode, tree, "eat", NoErr)
         [] Top.pc = 2 ->
              IF ~Matches({"Semicolon", "EOF"})
              THEN Step(CallEatAll(Goto(3), "Semicolon"), NoNode, tree, "eat",
                        EatOnlyErr(Peek, "Semicolon", "expected ';' after module name"))
              ELSE Step(CallEatAll(Goto(3), "Semicolon"), NoNode, tree, "none", NoErr)
         [] Top.pc = 3 -> Step(Call(Goto(4), "parseImports"), NoNode, tree, "none", NoErr)
         [] Top.pc = 4 -> Step(Below, Node("ok", FALSE, 0), tree, "none", NoErr)
         [] Top.pc = 9 -> Step(Below, Node("ErrBadModule", FALSE, 0), tree, "none", NoErr)

\* Parser.parseImports
ParseImports ==
    /\ Running("parseImports")
    /\ CASE Top.pc = 0 ->
              IF Matches({"Import"})
              THEN Step(Call(Goto(1), "parseImport"), NoNode, tree, "none", NoErr)
              ELSE Step(Below, NoNode, tree, "none", NoErr)
         [] Top.pc = 1 ->
              IF ret.kind = "ImportDecl"
              THEN IF ~Matches({"Semicolon", "EOF"})
                   THEN Step(CallEatAll(Goto(0), "Semicolon"), NoNode, AddDecl(tree, ret), "eat",
                             EatOnlyErr(Peek, "Semicolon", "expected ';' after import declaration"))
                   ELSE Step(CallEatAll(Goto(0), "Semicolon"), NoNode, AddDecl(tree, ret), "none", NoErr)
              ELSE Step(Goto(0), NoNode, AddDecl(tree, ret), "none", NoErr)

\* Parser.parseImport
ParseImport ==
    /\ Running("parseImport")
    /\ CASE Top.pc = 0 ->
              IF Peek.type # "Import"
              THEN Step(CallAdvance(Goto(8), "declStart"), NoNode, tree, "eat",
                        EatOnlyErr(Peek, "Import", "expected 'import' keyword at start of import declaration"))
              ELSE Step(Goto(1), NoNode, tree, "eat", NoErr)
         [] Top.pc = 1 ->
              IF Matches({"Identifier"})
              THEN Step(Goto(2), NoNode, tree, "eat", NoErr)
              ELSE Step(Goto(2), NoNode, tree, "none", NoErr)
         [] Top.pc = 2 ->
              IF Peek.type # "String"
              THEN Step(CallAdvance(Goto(8), "declStart"), NoNode, tree, "eat",
                        EatOnlyErr(Peek, "String", "expected module path after 'import' keyword"))
              ELSE Step(Below, Node("ImportDecl", FALSE, 0), tree, "eat", NoErr)
         [] Top.pc = 8 -> Step(Below, Node("BadDecl", TRUE, 0), tree, "none", NoErr)

\* Parser.parseTypeDecl
ParseTypeDecl ==
    /\ Running("parseTypeDecl")
    /\ CASE Top.pc = 0 ->
              IF Peek.type # "TypeKeyword"
              THEN Step(CallAdvance(Goto(8), "declStart"), NoNode, tree, "eat",
                        EatOnlyErr(Peek, "TypeKeyword", "expected 'type' keyword at start of type declaration"))
              ELSE Step(Goto(1), NoNode, tree, "eat", NoErr)
         [] Top.pc = 1 ->
              IF Peek.type # "Identifier"
              THEN Step(CallAdvance(Goto(8), "declStart"), NoNode, tree, "eat",
                        EatOnlyErr(Peek, "Identifier", "expected type name after 'type' keyword"))
              ELSE Step(Call(Goto(2), "parseType"), NoNode, tree, "eat", NoErr)
         [] Top.pc = 2 -> Step(Below, Node("TypeDecl", ret.bad, 0), tree, "none", NoErr)
         [] Top.pc = 8 -> Step(Below, Node("BadDecl", TRUE, 0), tree, "none", NoErr)

\* Parser.parseType
ParseType ==
    /\ Running("parseType")
    /\ CASE Top.pc = 0 ->
              CASE Peek.type = "Identifier" -> Step(GotoWith(1, NoNode, Peek.line), NoNode, tree, "eat", NoErr)
                [] Peek.type = "Tuple" -> Step(Call(Goto(3), "parseTupleType"), NoNode, tree, "eat", NoErr)
                [] OTHER -> Step(Below, Node("BadExpr", TRUE, Peek.line), tree, "eat",
                                 Err(Peek.line, "expected type"))
         [] Top.pc = 1 ->
              IF Matches({"Period"})
              THEN Step(Goto(2), NoNode, tree, "eat", NoErr)
              ELSE Step(Below, Node("Identifier", FALSE, Top.n), tree, "none", NoErr)
         [] Top.pc = 2 ->
              IF Peek.type # "Identifier"
              THEN Step(Below, Node("BadExpr", TRUE, Peek.line), tree, "eat",
                        EatOnlyErr(Peek, "Identifier", "expected identifier after '.'"))
              ELSE Step(Below, Node("DotExpr", FALSE, Top.n), tree, "eat", NoErr)
         [] Top.pc = 3 -> Step(Below, ret, tree, "none", NoErr)

\* Parser.parseTupleType
ParseTupleType ==
    /\ Running("parseTupleType")
    /\ CASE Top.pc = 0 ->
              Step(GotoWith(1, Node("FieldList", FALSE, 0), 0), NoNode, tree, "eat",
                   EatOnlyErr(Peek, "LSquareBracket", "expected '[' after 'tuple'"))
         [] Top.pc = 1 ->
              IF ~Matches({"RSquareBracket"})
              THEN Step(Call(Goto(2), "parseType"), NoNode, tree, "none", NoErr)
              ELSE Step(Goto(4), NoNode, tree, "none", NoErr)
         [] Top.pc = 2 ->
              LET fields == Node("FieldList", Top.v.bad \/ ret.bad, 0) IN
              IF Matches({"RSquareBracket"})
              THEN Step(GotoWith(4, fields, 0), NoNode, tree, "none", NoErr)
              ELSE Step(GotoWith(1, fields, 0), NoNode, tree, "eat",
                        EatOnlyErr(Peek, "Comma", "missing ',' in tuple type list"))
         [] Top.pc = 4 ->
              Step(Below, Node("TupleType", Top.v.bad, 0), tree, "eat",
                   EatOnlyErr(Peek, "RSquareBracket", "expected ']' after tuple field list"))

----------------------------------------------------------------------------
(* Functions and statements *)

\* Parser.parseFunction
ParseFunction ==
    /\ Running("parseFunction")
    /\ CASE Top.pc = 0 ->
              IF Peek.type # "Func"
              THEN Step(CallAdvance(Goto(8), "declStart"), NoNode, tree, "eat",
                        EatOnlyErr(Peek, "Func", "expected 'func' keyword at start of function"))
              ELSE Step(Goto(1), NoNode, tree, "eat", NoErr)
         [] Top.pc = 1 ->
              IF Peek.type # "Identifier"
              THEN Step(CallAdvance(Goto(8), "declStart"), NoNode, tree, "eat",
                        EatOnlyErr(Peek, "Identifier", "expected function name after 'func' keyword"))
              ELSE Step(Goto(2), NoNode, tree, "eat", NoErr)
         [] Top.pc = 2 ->
              Step(Call(Goto(3), "parseParams"), NoNode, tree, "eat",
                   EatOnlyErr(Peek, "LParen", "expected '(' after function name"))
         [] Top.pc = 3 ->
              Step(Call(Goto(4), "parseBody"), NoNode, tree, "eat",
                   EatOnlyErr(Peek, "LCurlyBracket", "expected '{' after function parameters"))
         [] Top.pc = 4 ->
              Step(Below, Node("FuncDecl", ret.bad, 0), tree, "eat",
                   EatOnlyErr(Peek, "RCurlyBracket", "expected '}' to end function body"))
         [] Top.pc = 8 -> Step(Below, Node("BadDecl", TRUE, 0), tree, "none", NoErr)

\* Parser.parseParams; Top.n is 1 once i > 0
ParseParams ==
    /\ Running("parseParams")
    /\ CASE Top.pc = 0 ->
              CASE Matches({"EOF"}) -> Step(Below, NoNode, tree, "none", NoErr)
                [] Matches({"RParen"}) -> Step(Below, NoNode, tree, "eat", NoErr)
                [] Top.n > 0 /\ Peek.type # "Comma" ->
                     Step(CallAdvance(Goto(1), "paramStart"), NoNode, tree, "eat",
                          EatOnlyErr(Peek, "Comma", "expected ',' between parameters"))
                [] Top.n > 0 -> Step(Goto(1), NoNode, tree, "eat", NoErr)
                [] OTHER -> Step(GotoWith(0, NoNode, 1), NoNode, tree, "eat",
                                 EatOnlyErr(Peek, "Identifier", "expected parameter name"))
         [] Top.pc = 1 ->
              Step(GotoWith(0, NoNode, 1), NoNode, tree, "eat",
                   EatOnlyErr(Peek, "Identifier", "expected parameter name"))

\* Parser.parseBody; Top.v is body
ParseBody ==
    /\ Running("parseBody")
    /\ CASE Top.pc = 0 ->
              IF Matches({"EOF"})
              THEN Step(Below, Node("body", Top.v.bad, 0), tree, "none", NoErr)
              ELSE Step(CallEatAll(Goto(1), "Semicolon"), NoNode, tree, "none", NoErr)
         [] Top.pc = 1 ->
              IF Peek.type = "RCurlyBracket"
              THEN Step(Below, Node("body", Top.v.bad, 0), tree, "none", NoErr)
              ELSE Step(Call(Goto(2), "parseStatement"), NoNode, tree, "none", NoErr)
         [] Top.pc = 2 ->
              LET body == Node("body", Top.v.bad \/ ret.bad, 0) IN
              IF ~Matches({"Semicolon", "RCurlyBracket", "EOF"})
              THEN Step(CallAdvance(CallAdvance(GotoWith(3, body, 0), "stmtStart"), "exprEnd"),
                        NoNode, tree, "eat", Err(Peek.line, "expected ';' at end of statement"))
              ELSE Step(GotoWith(0, body, 0), NoNode, tree, "none", NoErr)
         [] Top.pc = 3 ->
              Step(GotoWith(0, Node("body", TRUE, 0), 0), NoNode, tree, "none", NoErr)

\* Parser.parseStatement
ParseStatement ==
    /\ Running("parseStatement")
    /\ IF Peek.type = "Return"
       THEN Step(Call(Below, "parseReturnStatement"), NoNode, tree, "none", NoErr)
       ELSE Step(Call(Below, "parseExpressionStatement"), NoNode, tree, "none", NoErr)

\* Parser.parseReturnStatement
ParseReturnStatement ==
    /\ Running("parseReturnStatement")
    /\ CASE Top.pc = 0 ->
              Step(Call(Goto(1), "parseExpression"), NoNode, tree, "eat",
                   EatOnlyErr(Peek, "Return", "expected 'return' keyword"))
         [] Top.pc = 1 -> Step(Below, Node("ReturnStatement", ret.bad, 0), tree, "none", NoErr)

\* Parser.parseExpressionStatement
ParseExpressionStatement ==
    /\ Running("parseExpressionStatement")
    /\ CASE Top.pc = 0 -> Step(Call(Goto(1), "parseExpression"), NoNode, tree, "none", NoErr)
         [] Top.pc = 1 -> Step(Below, Node("ExprStatement", ret.bad, 0), tree, "none", NoErr)

----------------------------------------------------------------------------
(* Expressions *)

\* Parser.parseExpression
ParseExpression ==
    /\ Running("parseExpression")
    /\ Step(Call(Below, "parseMatch"), NoNode, tree, "none", NoErr)

\* Parser.parseMatch; Top.v is left
ParseMatch ==
    /\ Running("parseMatch")
    /\ CASE Top.pc = 0 -> Step(Call(Goto(1), "parseEquality"), NoNode, tree, "none", NoErr)
         [] Top.pc = 1 ->
              CASE Matches({"Equal"}) ->
                     Step(Call(GotoWith(2, ret, 0), "parseMatch"), NoNode, tree, "eat", NoErr)
                [] Matches({"ColonEqual"}) ->
                     Step(Call(GotoWith(3, ret, 0), "parseEquality"), NoNode, tree, "eat", NoErr)
                [] OTHER -> Step(Below, ret, tree, "none", NoErr)
         [] Top.pc = 2 ->
              IF Top.v.kind = "Identifier"
              THEN Step(Below, Node("AssignExpr", ret.bad, Top.v.line), tree, "none", NoErr)
              ELSE Step(Below, NoNode, tree, "none",
                        Err(Top.v.line, "left hand side of assignment must be an identifier"))
         [] Top.pc = 3 ->
              Step(Below, Node("MatchAssignExpr", Top.v.bad \/ ret.bad, Top.v.line),
                   tree, "none", NoErr)

\* The loop of a binary level: parseEquality, parseComparison, parseTerm,
\* parseFactor.  Top.v is left.
BinaryLevel(fn, ops, next) ==
    /\ Running(fn)
    /\ CASE Top.pc = 0 -> Step(Call(Goto(1), next), NoNode, tree, "none", NoErr)
         [] Top.pc \in {1, 2} ->
              LET left == IF Top.pc = 1
                          THEN ret
                          ELSE Node("BinaryExpr", Top.v.bad \/ ret.bad, Top.v.line)
              IN  IF Matches(ops)
                  THEN Step(Call(GotoWith(2, left, 0), next), NoNode, tree, "eat", NoErr)
                  ELSE Step(Below, left, tree, "none", NoErr)

\* Parser.parseEquality
ParseEquality == BinaryLevel("parseEquality", {"EqualEqual", "BangEqual"}, "parseComparison")

\* Parser.parseComparison
ParseComparison ==
    BinaryLevel("parseComparison", {"Greater", "GreaterEqual", "Less", "LessEqual"}, "parseTerm")

\* Parser.parseTerm
ParseTerm == BinaryLevel("parseTerm", {"Plus", "Minus"}, "parseFactor")

\* Parser.parseFactor
ParseFactor == BinaryLevel("parseFactor", {"Slash", "Star"}, "parseUnary")

\* Parser.parseUnary; Top.n is the line of op
ParseUnary ==
    /\ Running("parseUnary")
    /\ CASE Top.pc = 0 ->
              IF Matches({"Minus", "Plus"})
              THEN Step(Call(GotoWith(1, NoNode, Peek.line), "parseUnary"), NoNode, tree, "eat", NoErr)
              ELSE Step(Call(Below, "parseCall"), NoNode, tree, "none", NoErr)
         [] Top.pc = 1 -> Step(Below, Node("UnaryExpr", ret.bad, Top.n), tree, "none", NoErr)

\* Parser.parseCall; Top.v is callee
ParseCall ==
    /\ Running("parseCall")
    /\ CASE Top.pc = 0 -> Step(Call(Goto(1), "parsePrimary"), NoNode, tree, "none", NoErr)
         [] Top.pc \in {1, 2} ->
              LET callee == IF Top.pc = 1 THEN ret ELSE Top.v IN
              CASE Matches({"LParen"}) ->
                     Step(Call(GotoWith(3, callee, 0), "parseArguments"), NoNode, tree, "eat", NoErr)
                [] Matches({"Period"}) ->
                     Step(GotoWith(4, callee, 0), NoNode, tree, "eat", NoErr)
                [] OTHER -> Step(Below, callee, tree, "none", NoErr)
         [] Top.pc = 3 ->
              Step(GotoWith(2, NodeN("CallExpr", Top.v.bad \/ ret.bad, Top.v.line, ret.n), 0),
                   NoNode, [tree EXCEPT !.unclosed = @ \/ Peek.type # "RParen"], "eat", NoErr)
         [] Top.pc = 4 ->
              IF Peek.type # "Identifier"
              THEN Step(CallAdvance(GotoWith(5, Top.v, Peek.line), "exprEnd"), NoNode, tree, "eat",
                        EatOnlyErr(Peek, "Identifier", "expected identifier after '.'"))
              ELSE Step(GotoWith(2, Node("DotExpr", Top.v.bad, Top.v.line), 0),
                        NoNode, tree, "eat", NoErr)
         [] Top.pc = 5 -> Step(Below, Node("BadExpr", TRUE, Top.n), tree, "none", NoErr)

\* The test of parseArguments on len(args) with one argument more let through
TooManyArgumentsOffByOne(n) == n > MaxArguments

\* The test of parseArguments on len(args) once a further comma is eaten
TooManyArguments(n) == n >= MaxArguments

\* Parser.parseArguments; Top.v is args, Top.n is len(args)
ParseArguments ==
    /\ Running("parseArguments")
    /\ CASE Top.pc = 0 ->
              IF ~Matches({"RParen"})
              THEN Step(Call(Goto(1), "parseExpression"), NoNode, tree, "none", NoErr)
              ELSE Step(Below, NodeN("args", FALSE, 0, 0), tree, "none", NoErr)
         [] Top.pc = 1 ->
              LET args == NodeN("args", Top.v.bad \/ ret.bad, 0, Top.n + 1) IN
              IF Matches({"Comma"})
              THEN IF TooManyArguments(args.n)
                   THEN Step(Below, args, tree, "eat",
                             Err(Peek.line, "cannot have more than 255 arguments"))
                   ELSE Step(Call(GotoWith(1, args, args.n), "parseExpression"),
                             NoNode, tree, "eat", NoErr)
              ELSE Step(Below, args, tree, "none", NoErr)

\* strconv.ParseInt(lit, 10, 64) and strconv.ParseFloat(lit, 64) fail on a
\* literal out of range
IntOutOfRange == {"9223372036854775808"}
FloatOutOfRange == {"1e999"}

\* Parser.parsePrimary together with parseInt and parseFloat; Top.n is the
\* line of tok
ParsePrimary ==
    /\ Running("parsePrimary")
    /\ CASE Top.pc = 0 ->
              CASE Peek.type = "Integer" ->
                     Step(Below, Node("IntLiteral", FALSE, Peek.line), tree, "eat",
                          IF Peek.lit \in IntOutOfRange THEN Err(Peek.line, "parse int") ELSE NoErr)
                [] Peek.type = "Float" ->
                     Step(Below, Node("FloatLiteral", FALSE, Peek.line), tree, "eat",
                          IF Peek.lit \in FloatOutOfRange THEN Err(Peek.line, "parse float") ELSE NoErr)
                [] Peek.type = "Identifier" ->
                     Step(Below, Node("Identifier", FALSE, Peek.line), tree, "eat", NoErr)
                [] Peek.type = "String" ->
                     Step(Below, Node("StringLiteral", FALSE, Peek.line), tree, "eat", NoErr)
                [] Peek.type = "Atom" ->
                     Step(Below, Node("AtomLiteral", FALSE, Peek.line), tree, "eat", NoErr)
                [] Peek.type = "LParen" ->
                     Step(Call(GotoWith(1, NoNode, Peek.line), "parseExpression"),
                          NoNode, tree, "eat", NoErr)
                [] OTHER ->
                     Step(CallAdvance(GotoWith(2, NoNode, Peek.line), "exprEnd"), NoNode, tree, "eat",
                          Err(Peek.line, "expected expression"))
         [] Top.pc = 1 ->
              Step(Below, Node("ParenExpr", ret.bad, Top.n), tree, "eat",
                   EatOnlyErr(Peek, "RParen", "unclosed '(' around expression"))
         [] Top.pc = 2 -> Step(Below, Node("BadExpr", TRUE, Top.n), tree, "none", NoErr)

----------------------------------------------------------------------------
(* The AST as package compile reads it, and Core IR *)

IntLiteral(v) == [kind |-> "IntLiteral", value |-> v]
FloatLiteral(v) == [kind |-> "FloatLiteral", value |-> v]
StringLiteral(v) == [kind |-> "StringLiteral", value |-> v]
AtomLiteral(v) == [kind |-> "AtomLiteral", value |-> v]
Identifier(name) == [kind |-> "Identifier", name |-> name]
CallExpr(callee, args) == [kind |-> "CallExpr", callee |-> callee, args |-> args]
DotExpr(target, attr) == [kind |-> "DotExpr", target |-> target, attr |-> attr]
ParenExpr(e) == [kind |-> "ParenExpr", expr |-> e]
BadExpr == [kind |-> "BadExpr"]
ReturnStatement(e) == [kind |-> "ReturnStatement", expr |-> e]
ExprStatement(e) == [kind |-> "ExprStatement", expr |-> e]
BadStmt == [kind |-> "BadStmt"]
FuncDecl(name, params, stmts) ==
    [kind |-> "FuncDecl", name |-> name, params |-> params, stmts |-> stmts]
BadDecl == [kind |-> "BadDecl"]
ImportDecl(path) == [kind |-> "ImportDecl", path |-> path]
AstModule(id, decls) == [kind |-> "Module", id |-> id, decls |-> decls]

Integer(v) == [kind |-> "Integer", value |-> v]
Float(v) == [kind |-> "Float", value |-> v]
String(v) == [kind |-> "String", value |-> v]
Atom(v) == [kind |-> "Atom", value |-> v]
Var(name) == [kind |-> "Var", name |-> name]
Application(f, args) == [kind |-> "Application", func |-> f, args |-> args]
InterModuleCall(m, f, args) == [kind |-> "InterModuleCall", module |-> m, func |-> f, args |-> args]
NilExpr == [kind |-> "nil"]
ConstTuple(elts) == [kind |-> "ConstTuple", elements |-> elts]
FuncName(name, arity) == [name |-> name, arity |-> arity]

\* What a compile* call gives: ok is FALSE when it panicked; ast is the tree
\* it was given as the call leaves it
Lowered(ir, ast) == [ok |-> TRUE, ir |-> ir, ast |-> ast]
Panicked(ast) == [ok |-> FALSE, ir |-> NilExpr, ast |-> ast]

RECURSIVE compileExpr(_)

\* Compiler.compileExprs, given what compileExpr gives for each element: the
\* loop ends at the first element that panics
ExprsResult(exprs, rs) ==
    LET failed == {i \in 1..Len(exprs) : ~rs[i].ok} IN
    IF failed = {}
    THEN Lowered([i \in 1..Len(exprs) |-> rs[i].ir], [i \in 1..Len(exprs) |-> rs[i].ast])
    ELSE LET k == CHOOSE i \in failed : \A j \in failed : i <= j IN
         Panicked([i \in 1..Len(exprs) |-> IF i <= k THEN rs[i].ast ELSE exprs[i]])

\* Compiler.compileExprs: ir and ast are the lists
compileExprs(exprs) == ExprsResult(exprs, [i \in 1..Len(exprs) |-> compileExpr(exprs[i])])

\* A call head or module target left as it is
AsAtomKept(expr) == expr

\* The identifier-to-atom rewrite of a call head or module target
AsAtom(expr) == IF expr.kind = "Identifier" THEN AtomLiteral(expr.name) ELSE expr

\* Compiler.compileLocalCallExpr, given the lowered callee f and arguments a
LocalCallResult(call, f, a) ==
    IF ~f.ok
    THEN Panicked([call EXCEPT !.callee = f.ast])
    ELSE IF ~a.ok
         THEN Panicked([call EXCEPT !.callee = f.ast, !.args = a.ast])
         ELSE Lowered(Application(f.ir, a.ir), [call EXCEPT !.callee = f.ast, !.args = a.ast])

\* Compiler.compileLocalCallExpr
compileLocalCallExpr(call) ==
    LocalCallResult(call, compileExpr(AsAtom(call.callee)), compileExprs(call.args))

\* Compiler.compileDotCallExpr, given the lowered target m and arguments a
DotCallResult(call, m, a) ==
    IF ~m.ok
    THEN Panicked([call EXCEPT !.callee.target = m.ast])
    ELSE IF ~a.ok
         THEN Panicked([call EXCEPT !.callee.target = m.ast, !.args = a.ast])
         ELSE Lowered(InterModuleCall(m.ir, Atom(call.callee.attr), a.ir),
                      [call EXCEPT !.callee.target = m.ast, !.args = a.ast])

\* Compiler.compileDotCallExpr
compileDotCallExpr(call) ==
    DotCallResult(call, compileExpr(AsAtom(call.callee.target)), compileExprs(call.args))

\* Compiler.compileCallExpr
compileCallExpr(call) ==
    IF call.callee.kind = "DotExpr"
    THEN compileDotCallExpr(call)
    ELSE compileLocalCallExpr(call)

\* Compiler.compileExpr
compileExpr(expr) ==
    CASE expr.kind = "IntLiteral" -> Lowered(Integer(expr.value), expr)
      [] expr.kind = "StringLiteral" -> Lowered(String(expr.value), expr)
      [] expr.kind = "Identifier" -> Lowered(Var(expr.name), expr)
      [] expr.kind = "AtomLiteral" -> Lowered(Atom(expr.value), expr)
      [] expr.kind = "CallExpr" -> compileCallExpr(expr)
      [] OTHER -> Panicked(expr)

\* Compiler.compileStatements: the loop from statement i on, expr so far
RECURSIVE compileStatementsFrom(_, _, _)
ReturnResult(stmts, i, r) ==
    IF ~r.ok
    THEN Panicked([stmts EXCEPT ![i].expr = r.ast])
    ELSE compileStatementsFrom([stmts EXCEPT ![i].expr = r.ast], i + 1, r.ir)

compileStatementsFrom(stmts, i, expr) ==
    IF i > Len(stmts)
    THEN Lowered(expr, stmts)
    ELSE IF stmts[i].kind = "ReturnStatement"
         THEN ReturnResult(stmts, i, compileExpr(stmts[i].expr))
         ELSE compileStatementsFrom(stmts, i + 1, expr)

\* Compiler.compileStatements
compileStatements(stmts) == compileStatementsFrom(stmts, 1, NilExpr)

\* Compiler.compileFunction, given the lowered statements
FunctionResult(fn, body) ==
    IF ~body.ok
    THEN Panicked([fn EXCEPT !.stmts = body.ast])
    ELSE Lowered([kind |-> "Func",
                  name |-> FuncName(fn.name, Len(fn.params)),
                  annotation |-> ConstTuple(<<Atom("function"),
                                    ConstTuple(<<Atom(fn.name), Integer(Len(fn.params))>>)>>),
                  params |-> [i \in 1..Len(fn.params) |-> Var(fn.params[i])],
                  body |-> body.ir],
                 [fn EXCEPT !.stmts = body.ast])

\* Compiler.compileFunction
compileFunction(fn) == FunctionResult(fn, compileStatements(fn.stmts))

\* Compiler.compileModule: the loop from declaration i on.  Exports are left
\* out: FuncDecl.IsPublic is not part of the sources.
RECURSIVE compileDeclsFrom(_, _, _)
DeclResult(decls, i, funcs, f) ==
    IF ~f.ok
    THEN Panicked([decls EXCEPT ![i] = f.ast])
    ELSE compileDeclsFrom([decls EXCEPT ![i] = f.ast], i + 1, Append(funcs, f.ir))

compileDeclsFrom(decls, i, funcs) ==
    IF i > Len(decls)
    THEN Lowered(funcs, decls)
    ELSE IF decls[i].kind = "FuncDecl"
         THEN DeclResult(decls, i, funcs, compileFunction(decls[i]))
         ELSE Panicked(decls)

\* Compiler.compileModule, given the lowered declarations
ModuleResult(mod, fs) ==
    IF ~fs.ok
    THEN Panicked([mod EXCEPT !.decls = fs.ast])
    ELSE Lowered([kind |-> "Module", name |-> mod.id, functions |-> fs.ir],
                 [mod EXCEPT !.decls = fs.ast])

\* Compiler.compileModule
compileModule(mod) == ModuleResult(mod, compileDeclsFrom(mod.decls, 1, <<>>))

\* commonModFuncs as parse.Module returns it: the declarations of the template
commonModFuncs(mod) ==
    <<FuncDecl("module_info", <<>>,
        <<ReturnStatement(CallExpr(DotExpr(Identifier("erlang"), "module_info"),
                                   <<AtomLiteral(mod.id)>>))>>),
      FuncDecl("module_info", <<"Value">>,
        <<ReturnStatement(CallExpr(DotExpr(Identifier("erlang"), "module_info"),
                                   <<AtomLiteral(mod.id), Identifier("Value")>>))>>)>>

\* addBaseFuncs
addBaseFuncs(mod) == [mod EXCEPT !.decls = commonModFuncs(mod) \o @]

----------------------------------------------------------------------------
(* The parser on every input of at most MaxTokens tokens on MaxLine lines *)

Kind(type, lit) == [type |-> type, lit |-> lit]

Kinds ==
    {Kind(t, "") : t \in {"Module", "Import", "TypeKeyword", "Func", "Return", "Tuple",
                          "Semicolon", "Comma", "Period", "LParen", "RParen",
                          "LCurlyBracket", "RCurlyBracket", "LSquareBracket", "RSquareBracket",
                          "Equal", "ColonEqual", "EqualEqual", "Less", "Plus", "Star"}}
    \cup {Kind("Identifier", "a"), Kind("String", "s"), Kind("Atom", "x"),
          Kind("Integer", "1"), Kind("Integer", "9223372036854775808"),
          Kind("Float", "1.5"), Kind("Float", "1e999")}

NoCall == [call |-> "none", ok |-> TRUE, ir |-> NilExpr, ast |-> NilExpr]
CompilerIdle == cin = NilExpr /\ cmod = NilExpr /\ carg = NilExpr /\ cout = NoCall /\ ccalls = 0

ParserStart(entry) ==
    /\ stack = <<F0(entry)>>
    /\ ret = NoNode
    /\ errors = <<>>
    /\ report = NoReport
    /\ status = "run"
    /\ tree = EmptyTree(entry)

Init ==
    /\ alphabet = Kinds
    /\ \E f \in Fills(<<>>, MaxTokens, 1) :
          /\ toks = f.toks
          /\ budget = f.budget
          /\ line = f.line
    /\ \E entry \in {"Module", "Function"} : ParserStart(entry)
    /\ CompilerIdle

Next ==
    \/ Module
    \/ Function
    \/ ParseModuleHeader
    \/ ParseImports
    \/ ParseImport
    \/ ParseTypeDecl
    \/ ParseType
    \/ ParseTupleType
    \/ ParseFunction
    \/ ParseParams
    \/ ParseBody
    \/ ParseStatement
    \/ ParseReturnStatement
    \/ ParseExpressionStatement
    \/ ParseExpression
    \/ ParseMatch
    \/ ParseEquality
    \/ ParseComparison
    \/ ParseTerm
    \/ ParseFactor
    \/ ParseUnary
    \/ ParseCall
    \/ ParseArguments
    \/ ParsePrimary
    \/ EatAll
    \/ Advance

Spec == Init /\ [][Next]_vars

----------------------------------------------------------------------------
(* Lowering: CompileModule and CompileFunction on the modules of Modules *)

\* A Compile* call on arg that gives r
Returns(call, arg, r) ==
    /\ carg' = arg
    /\ cout' = [call |-> call, ok |-> r.ok, ir |-> r.ir, ast |-> r.ast]

\* Compiler.CompileModule
CompileModule ==
    /\ status = "compile"
    /\ ccalls < MaxCalls
    /\ Returns("CompileModule", cmod, compileModule(addBaseFuncs(cmod)))
    /\ cmod' = cout'.ast
    /\ ccalls' = ccalls + 1
    /\ UNCHANGED <<pvars, cin>>

\* Compiler.CompileFunction, on a function declaration of the module
CompileFunction ==
    /\ status = "compile"
    /\ ccalls < MaxCalls
    /\ \E i \in 1..Len(cmod.decls) :
          /\ cmod.decls[i].kind = "FuncDecl"
          /\ Returns("CompileFunction", cmod.decls[i], compileFunction(cmod.decls[i]))
          /\ cmod' = [cmod EXCEPT !.decls[i] = cout'.ast]
    /\ ccalls' = ccalls + 1
    /\ UNCHANGED <<pvars, cin>>

Leaves ==
    {IntLiteral(1), IntLiteral(2), FloatLiteral("1.5"), StringLiteral("s"), AtomLiteral("x"),
     Identifier("a"), BadExpr}
ArgLeaves == {IntLiteral(1), IntLiteral(2), Identifier("a"), FloatLiteral("1.5"), BadExpr}
ArgLists == {<<>>} \cup {<<x>> : x \in ArgLeaves} \cup {<<x, y>> : x, y \in ArgLeaves}
Callees ==
    {Identifier("local"), AtomLiteral("x"), ParenExpr(Identifier("a")),
     DotExpr(Identifier("mod"), "fn"), DotExpr(AtomLiteral("x"), "fn")}
Calls == {CallExpr(c, a) : c \in Callees, a \in ArgLists}
ModFn1 == CallExpr(DotExpr(Identifier("mod"), "fn"), <<IntLiteral(1)>>)
Local2 == CallExpr(Identifier("local"), <<IntLiteral(2)>>)
NestedCalls ==
    {CallExpr(DotExpr(c, "fn"), a) : c \in {ModFn1, Local2}, a \in {<<>>, <<IntLiteral(2)>>}}
    \cup {CallExpr(c, a) : c \in {ModFn1, Local2}, a \in {<<>>, <<Identifier("a")>>}}
    \cup {CallExpr(c, <<a>>) : c \in {Identifier("local"), DotExpr(Identifier("mod"), "fn")},
                               a \in {ModFn1, Local2}}
Exprs == Leaves \cup Calls \cup NestedCalls \cup {NilExpr, DotExpr(Identifier("a"), "b")}
Stmts == {ReturnStatement(e) : e \in Exprs} \cup {ExprStatement(e) : e \in Exprs} \cup {BadStmt}
FewStmts ==
    {ReturnStatement(Identifier("a")), ReturnStatement(Local2), ExprStatement(ModFn1),
     ExprStatement(Local2), ExprStatement(BadExpr), BadStmt}
Bodies == {<<>>} \cup {<<x>> : x \in Stmts} \cup {<<x, y>> : x, y \in FewStmts}
Funcs ==
    {FuncDecl("call", <<>>, b) : b \in Bodies}
    \cup {FuncDecl("params", <<"a", "b">>, <<x>>) : x \in FewStmts}
Modules ==
    {AstModule("m", ds) :
        ds \in {<<>>, <<BadDecl>>, <<ImportDecl("p")>>}
               \cup {<<f>> : f \in Funcs}
               \cup {<<d, FuncDecl("call", <<>>, <<x>>)>> :
                        d \in {BadDecl, ImportDecl("p"), FuncDecl("params", <<"a">>, <<>>)},
                        x \in FewStmts}}

ParserIdle ==
    /\ toks = <<>>
    /\ budget = 0
    /\ line = 1
    /\ alphabet = {}
    /\ stack = <<>>
    /\ ret = NoNode
    /\ errors = <<>>
    /\ report = NoReport
    /\ tree = EmptyTree("none")

InitCompile ==
    /\ ParserIdle
    /\ status = "compile"
    /\ cin \in Modules
    /\ cmod = cin
    /\ carg = NilExpr
    /\ cout = NoCall
    /\ ccalls = 0

NextCompile == CompileModule \/ CompileFunction

SpecCompile == InitCompile /\ [][NextCompile]_vars

----------------------------------------------------------------------------
(* Modules of imports and type declarations, under weak fairness: a call    *)
(* that can take a step takes it.  No token of this alphabet starts a       *)
(* function, so the actions of function bodies are never enabled.          *)

TypeKinds ==
    {Kind(t, "") : t \in {"Module", "Import", "TypeKeyword", "Tuple", "Semicolon", "Comma",
                          "Period", "LSquareBracket", "RSquareBracket"}}
    \cup {Kind("Identifier", "a"), Kind("String", "s")}

InitTypes ==
    /\ alphabet = TypeKinds
    /\ \E f \in Fills(<<>>, MaxTokens, 1) :
          /\ toks = f.toks
          /\ budget = f.budget
          /\ line = f.line
    /\ ParserStart("Module")
    /\ CompilerIdle

NextTypes ==
    \/ Module
    \/ ParseModuleHeader
    \/ ParseImports
    \/ ParseImport
    \/ ParseTypeDecl
    \/ ParseType
    \/ ParseTupleType
    \/ EatAll
    \/ Advance

SpecTypes == InitTypes /\ [][NextTypes]_vars /\ WF_vars(NextTypes)

----------------------------------------------------------------------------
(* The function entry point on bodies of many one-token statements:         *)
(*    func f ( ) {  followed by  ) ;  on each of k further lines, and  }    *)

RECURSIVE BadLines(_)
BadLines(k) ==
    IF k = 0
    THEN <<>>
    ELSE BadLines(k - 1) \o <<Tok("RParen", "", k + 1), Tok("Semicolon", "", k + 1)>>

CapInput(k) ==
    <<Tok("Func", "", 1), Tok("Identifier", "f", 1), Tok("LParen", "", 1), Tok("RParen", "", 1),
      Tok("LCurlyBracket", "", 1)>>
    \o BadLines(k) \o <<Tok("RCurlyBracket", "", k + 2)>>

InitCap ==
    /\ alphabet = {}
    /\ budget = 0
    /\ \E k \in 0..MaxBadLines :
          /\ toks = CapInput(k)
          /\ line = k + 2
    /\ ParserStart("Function")
    /\ CompilerIdle

NextCap ==
    \/ Function
    \/ ParseFunction
    \/ ParseParams
    \/ ParseBody
    \/ ParseStatement
    \/ ParseExpressionStatement
    \/ ParseExpression
    \/ ParseMatch
    \/ ParseEquality
    \/ ParseComparison
    \/ ParseTerm
    \/ ParseFactor
    \/ ParseUnary
    \/ ParseCall
    \/ ParsePrimary
    \/ EatAll
    \/ Advance

SpecCap == InitCap /\ [][NextCap]_vars

----------------------------------------------------------------------------
(* The function entry point on one call statement of k arguments:           *)
(*    func f ( ) { a ( 1 , 1 , ... , 1 ) }                                  *)
(* with k around MaxArguments; the comma after argument MaxArguments and    *)
(* what follows it are on line c.                                           *)

ArgLine(i, c) == IF i > MaxArguments THEN c ELSE 1

ArgsInput(k, c) ==
    <<Tok("Func", "", 1), Tok("Identifier", "f", 1), Tok("LParen", "", 1), Tok("RParen", "", 1),
      Tok("LCurlyBracket", "", 1), Tok("Identifier", "a", 1), Tok("LParen", "", 1)>>
    \o [i \in 1..(IF k = 0 THEN 0 ELSE 2 * k - 1) |->
           IF i % 2 = 1
           THEN Tok("Integer", "1", ArgLine((i + 1) \div 2, c))
           ELSE Tok("Comma", "", ArgLine((i \div 2) + 1, c))]
    \o <<Tok("RParen", "", ArgLine(k, c)), Tok("RCurlyBracket", "", ArgLine(k, c))>>

InitArgs ==
    /\ alphabet = {}
    /\ budget = 0
    /\ \E k \in {0, 1} \cup (MaxArguments..(MaxArguments + MaxExtraArgs)), c \in {1, 2} :
          /\ toks = ArgsInput(k, c)
          /\ line = c
    /\ ParserStart("Function")
    /\ CompilerIdle

NextArgs ==
    \/ Function
    \/ ParseFunction
    \/ ParseParams
    \/ ParseBody
    \/ ParseStatement
    \/ ParseExpressionStatement
    \/ ParseExpression
    \/ ParseMatch
    \/ ParseEquality
    \/ ParseComparison
    \/ ParseTerm
    \/ ParseFactor
    \/ ParseUnary
    \/ ParseCall
    \/ ParseArguments
    \/ ParsePrimary
    \/ EatAll
    \/ Advance

SpecArgs == InitArgs /\ [][NextArgs]_vars

----------------------------------------------------------------------------
(* The function entry point on  func f ( ) {  followed by every run of at   *)
(* most MaxBodyTokens tokens of BodyKinds, comments among them              *)

BodyKinds ==
    {Kind(t, "") : t \in {"Semicolon", "Comma", "LParen", "RParen", "LCurlyBracket",
                          "RCurlyBracket", "Return", "Period"}}
    \cup {Kind("Identifier", "a"), Kind("Integer", "1")}

BodyPrefix ==
    <<Tok("Func", "", 1), Tok("Identifier", "f", 1), Tok("LParen", "", 1), Tok("RParen", "", 1),
      Tok("LCurlyBracket", "", 1)>>

InitBody ==
    /\ alphabet = BodyKinds
    /\ toks = BodyPrefix
    /\ budget = MaxBodyTokens
    /\ line = 1
    /\ ParserStart("Function")
    /\ CompilerIdle

NextBody ==
    \/ Function
    \/ ParseFunction
    \/ ParseParams
    \/ ParseBody
    \/ ParseStatement
    \/ ParseReturnStatement
    \/ ParseExpressionStatement
    \/ ParseExpression
    \/ ParseMatch
    \/ ParseEquality
    \/ ParseComparison
    \/ ParseTerm
    \/ ParseFactor
    \/ ParseUnary
    \/ ParseCall
    \/ ParseArguments
    \/ ParsePrimary
    \/ EatAll
    \/ Advance

SpecBody == InitBody /\ [][NextBody]_vars

----------------------------------------------------------------------------
(* The module entry point on two functions, the body of the first with an   *)
(* unexpected token x on line l after its statement:                        *)
(*    module m ; func f ( ) { stmt x } func g ( ) { }                       *)

RecoverKinds ==
    {Kind(t, "") : t \in {"RParen", "Comma", "Return"}}
    \cup {Kind("Identifier", "b"), Kind("Integer", "1"), Kind("String", "s"), Kind("Atom", "x")}

RecoverStmts ==
    {<<Tok("Identifier", "a", 1)>>,
     <<Tok("Identifier", "a", 1), Tok("LParen", "", 1), Tok("RParen", "", 1)>>,
     <<Tok("Return", "", 1), Tok("Integer", "1", 1)>>}

RecoverInput(stmt, x, l) ==
    <<Tok("Module", "", 1), Tok("Identifier", "m", 1), Tok("Semicolon", "", 1),
      Tok("Func", "", 1), Tok("Identifier", "f", 1), Tok("LParen", "", 1), Tok("RParen", "", 1),
      Tok("LCurlyBracket", "", 1)>>
    \o stmt
    \o <<Tok(x.type, x.lit, l), Tok("RCurlyBracket", "", l),
         Tok("Func", "", l), Tok("Identifier", "g", l), Tok("LParen", "", l), Tok("RParen", "", l),
         Tok("LCurlyBracket", "", l), Tok("RCurlyBracket", "", l)>>

InitRecover ==
    /\ alphabet = {}
    /\ budget = 0
    /\ \E stmt \in RecoverStmts, x \in RecoverKinds, l \in {1, 2} :
          /\ toks = RecoverInput(stmt, x, l)
          /\ line = l
    /\ ParserStart("Module")
    /\ CompilerIdle

NextRecover ==
    \/ Module
    \/ ParseModuleHeader
    \/ ParseImports
    \/ ParseFunction
    \/ ParseParams
    \/ ParseBody
    \/ ParseStatement
    \/ ParseReturnStatement
    \/ ParseExpressionStatement
    \/ ParseExpression
    \/ ParseMatch
    \/ ParseEquality
    \/ ParseComparison
    \/ ParseTerm
    \/ ParseFactor
    \/ ParseUnary
    \/ ParseCall
    \/ ParseArguments
    \/ ParsePrimary
    \/ EatAll
    \/ Advance

SpecRecover == InitRecover /\ [][NextRecover]_vars

----------------------------------------------------------------------------
(* Claims about the parser *)

Ended == status \in {"done", "bailout"}

\* C1: for every finite token sequence the parse terminates: the entry point
\* returns (or unwinds through the bailout), whatever construct the input
\* ends in.
C1_ParseTerminates == <>Ended

\* C2: whenever a module parse ends with a non-empty error list, the tree
\* holds a Bad* node or the module header failed.
\* (An error reported by parseModuleHeader, the imports it parses included,
\* counts as a header failure whether or not the header returned ErrBadModule.)
HeaderMsgs ==
    {"expected 'module' keyword at start of file",
     "expected module name after 'module' keyword",
     "expected ';' after module name",
     "expected 'import' keyword at start of import declaration",
     "expected module path after 'import' keyword",
     "expected ';' after import declaration"}
HeaderFailure ==
    \/ tree.err = "ErrBadModule"
    \/ \E i \in 1..Len(errors) : errors[i].msg \in HeaderMsgs
C2_ErrorsImplyBadNode ==
    (Ended /\ tree.entry = "Module" /\ errors # <<>>)
        => (TreeBad(tree) \/ HeaderFailure)

\* C3: in every state of a parse, a Bad* node is in the tree built so far
\* (the declarations kept, the value a call just returned, the values the
\* active calls hold) only if an error has been recorded; so a parse that
\* ends with an empty error list returns a tree without Bad* nodes.
C3_NoBadNodeWithoutError ==
    errors = <<>> =>
        /\ ~TreeBad(tree)
        /\ ~ret.bad
        /\ \A i \in 1..Len(stack) : ~stack[i].v.bad

\* C3 witness: a parse has ended with an empty error list and a declaration
C3_Witness == status = "done" /\ errors = <<>> /\ tree.decls # <<>>

\* C4: the error list never holds more than 10 errors, and with 10 recorded
\* the next report on another line unwinds the parse and appends nothing.
C4_AtMostTenErrors ==
    /\ [](Len(errors) <= 10)
    /\ [][(Len(errors) = 10 /\ report'.outcome # "none" /\ report'.line # errors[10].line)
             => (status' = "bailout" /\ errors' = errors)]_vars

\* C5: the error list only grows at its end, no two neighbours in it are on
\* the same line, and a report on the line of the last recorded error leaves
\* the list as it is.
AdjacentDistinct == \A i \in 1..(Len(errors) - 1) : errors[i].line # errors[i + 1].line
AppendOnly ==
    \/ errors' = errors
    \/ /\ Len(errors') = Len(errors) + 1
       /\ SubSeq(errors', 1, Len(errors)) = errors
SameLineDiscarded ==
    (report'.outcome # "none" /\ errors # <<>> /\ report'.line = errors[Len(errors)].line)
        => errors' = errors
C5_AppendOnlyNoAdjacentSameLine ==
    /\ []AdjacentDistinct
    /\ [][AppendOnly /\ SameLineDiscarded]_vars

\* C5 witness: a report on the line of the last recorded error was made
C5_Witness ==
    /\ report.outcome = "discarded"
    /\ errors # <<>>
    /\ report.line = errors[Len(errors)].line

----------------------------------------------------------------------------
(* Claims about lowering *)

\* x is the IR expression ir or lies in it
RECURSIVE Contains(_, _)
Contains(ir, x) ==
    \/ ir = x
    \/ CASE ir.kind = "Application" ->
              \/ Contains(ir.func, x)
              \/ \E i \in 1..Len(ir.args) : Contains(ir.args[i], x)
         [] ir.kind = "InterModuleCall" ->
              \/ Contains(ir.module, x)
              \/ Contains(ir.func, x)
              \/ \E i \in 1..Len(ir.args) : Contains(ir.args[i], x)
         [] OTHER -> FALSE

CallFunc == FuncDecl("call", <<>>, <<ExprStatement(ModFn1), ExprStatement(Local2)>>)

\* C6: lowering  func call() { mod.fn(1); local(2) }  succeeds and its IR holds
\* the InterModuleCall mod:fn(1) and the Application local(2).
C6_StatementCallsLowered ==
    (cout.call = "CompileFunction" /\ carg = CallFunc) =>
        /\ cout.ok
        /\ Contains(cout.ir.body, InterModuleCall(Atom("mod"), Atom("fn"), <<Integer(1)>>))
        /\ Contains(cout.ir.body, Application(Atom("local"), <<Integer(2)>>))

\* The IR expression ir has the shape the AST expression e asks for
RECURSIVE CallShape(_, _)
ArgsShape(args, irs) ==
    /\ Len(irs) = Len(args)
    /\ \A i \in 1..Len(args) : CallShape(args[i], irs[i])
CallShape(e, ir) ==
    CASE e.kind = "CallExpr" /\ e.callee.kind = "DotExpr" ->
              /\ ir.kind = "InterModuleCall"
              /\ ir.func = Atom(e.callee.attr)
              /\ IF e.callee.target.kind = "Identifier"
                 THEN ir.module = Atom(e.callee.target.name)
                 ELSE CallShape(e.callee.target, ir.module)
              /\ ArgsShape(e.args, ir.args)
      [] e.kind = "CallExpr" /\ e.callee.kind # "DotExpr" ->
              /\ ir.kind = "Application"
              /\ IF e.callee.kind = "Identifier"
                 THEN ir.func = Atom(e.callee.name)
                 ELSE CallShape(e.callee, ir.func)
              /\ ArgsShape(e.args, ir.args)
      [] e.kind = "Identifier" -> ir = Var(e.name)
      [] e.kind = "IntLiteral" -> ir.kind = "Integer" /\ ir.value = e.value
      [] e.kind = "StringLiteral" -> ir.kind = "String" /\ ir.value = e.value
      [] e.kind = "AtomLiteral" -> ir.kind = "Atom" /\ ir.value = e.value
      [] OTHER -> FALSE

\* The statements of a function end in a return of a call
ReturnsCall(fn) ==
    /\ fn.stmts # <<>>
    /\ fn.stmts[Len(fn.stmts)].kind = "ReturnStatement"
    /\ fn.stmts[Len(fn.stmts)].expr.kind = "CallExpr"
ReturnedExpr(fn) == fn.stmts[Len(fn.stmts)].expr

RECURSIVE HasBad(_)
HasBad(node) ==
    CASE node.kind \in {"BadDecl", "BadStmt", "BadExpr"} -> TRUE
      [] node.kind = "Module" -> \E i \in 1..Len(node.decls) : HasBad(node.decls[i])
      [] node.kind = "FuncDecl" -> \E i \in 1..Len(node.stmts) : HasBad(node.stmts[i])
      [] node.kind \in {"ReturnStatement", "ExprStatement", "ParenExpr"} -> HasBad(node.expr)
      [] node.kind = "CallExpr" ->
              HasBad(node.callee) \/ \E i \in 1..Len(node.args) : HasBad(node.args[i])
      [] node.kind = "DotExpr" -> HasBad(node.target)
      [] OTHER -> FALSE

\* C8: CompileModule and CompileFunction fail on a tree that holds a BadDecl,
\* a BadStmt or a BadExpr.
C8_BadNodeIsFatal == (cout.call # "none" /\ HasBad(carg)) => ~cout.ok

\* C9: every CompileModule call that returns a module, the first and a
\* repeated one, returns module_info/0, module_info/1 and then one function
\* per FuncDecl of the module as it was parsed.
C9_BoilerplateOnce ==
    (cout.call = "CompileModule" /\ cout.ok) =>
        [i \in 1..Len(cout.ir.functions) |-> cout.ir.functions[i].name]
            = <<FuncName("module_info", 0), FuncName("module_info", 1)>>
              \o [i \in 1..Len(cin.decls) |->
                     FuncName(cin.decls[i].name, Len(cin.decls[i].params))]

\* The function returns one literal or one Identifier
ReturnsLeaf(fn) ==
    /\ Len(fn.stmts) = 1
    /\ fn.stmts[1].kind = "ReturnStatement"
    /\ fn.stmts[1].expr.kind \in
          {"IntLiteral", "FloatLiteral", "StringLiteral", "AtomLiteral", "Identifier"}
LeafKind(kind) ==
    CASE kind = "IntLiteral" -> "Integer"
      [] kind = "FloatLiteral" -> "Float"
      [] kind = "StringLiteral" -> "String"
      [] kind = "AtomLiteral" -> "Atom"
      [] kind = "Identifier" -> "Var"

\* C10: a returned literal is lowered to the IR constant of its kind with its
\* value, a returned Identifier to the Var of its name, and none of them fails.
C10_LeavesLowered ==
    (cout.call = "CompileFunction" /\ ReturnsLeaf(carg)) =>
        /\ cout.ok
        /\ cout.ir.body.kind = LeafKind(carg.stmts[1].expr.kind)
        /\ IF carg.stmts[1].expr.kind = "Identifier"
           THEN cout.ir.body.name = carg.stmts[1].expr.name
           ELSE cout.ir.body.value = carg.stmts[1].expr.value

----------------------------------------------------------------------------
(* Claims about calls and statement recovery *)

TooManyMsg == "cannot have more than 255 arguments"
TooManyCount == Cardinality({i \in 1..Len(errors) : errors[i].msg = TooManyMsg})

\* The argument lists and calls in hand: the value just returned and the
\* values the active calls hold
NodesInHand == {ret} \cup {stack[i].v : i \in 1..Len(stack)}

C12_EatAllSkipsRun ==
    /\ [][(Running("eatAll") /\ stack' = Below) => Peek'.type # Top.arg]_vars
    /\ [][(Running("parseBody") /\ Top.pc = 1 /\ Peek.type # "RCurlyBracket")
             => Peek.type # "Semicolon"]_vars

\* C13: a parse that ends with an empty error list has built no CallExpr whose
\* RightParen is the position of a token other than `)`.
C13_UnclosedCallReported == (Ended /\ errors = <<>>) => ~tree.unclosed

FuncDecls == {i \in 1..Len(tree.decls) : tree.decls[i].kind = "FuncDecl"}

\* C14: the advance calls of parseBody's recovery never eat the `}` that
\* closes the body, and the module ends with both functions as FuncDecls.
C14_RecoveryStaysInBody ==
    /\ [][(Running("advance") /\ Peek.type = "RCurlyBracket") => stack' = Below]_vars
    /\ [](Ended => Cardinality(FuncDecls) = 2)

====
